---- MODULE Spec2Model ----
(***************************************************************************)
(* Model of the WebSocket gateway: the Cognito token verifier with its     *)
(* process-wide JWKS cache (plugins/auth.ts), the API Gateway handlers and *)
(* their auth middleware (plugins/webSocketPlugin.ts,                      *)
(* middleware/webSocketAuth.ts), the DynamoDB connection registry and the  *)
(* message relay (services/connectionService.ts, messageService.ts), and   *)
(* the Socket.io auth middleware (middleware/socketAuth.ts).               *)
(*                                                                         *)
(* Every "await" of the source is a point where another handler may run,   *)
(* so each handler is a small process whose pc names the await it is       *)
(* suspended at.                                                           *)
(***************************************************************************)
EXTENDS Integers, FiniteSets, Sequences, TLC

\* ------------------------------------------------------------------ bounds
\* Last instant of the model clock, in ticks of TickMs milliseconds.
MaxTime == 3
\* config.auth.jwksCacheTTL in the units of the model clock (the source's
\* default is 24 h in milliseconds, and it is read from the environment).
CACHE_TTL == 1
\* Largest number of messages the Messages table holds in a run.
MaxMsgs == 2
\* Largest number of words in an error message.
MaxWords == 3
\* Milliseconds of Date.now() in one tick of the clock.
TickMs == 500
\* connectionService.addConnection, line 19: timestamp / 1000 and the
\* 2 hours of the row's TTL, in seconds.
MsPerSecond == 1000
ConnectionTtl == 60 * 60 * 2

\* Callers of the verifier / connection ids / socket ids.
Ids == {"c1", "c2"}

\* ------------------------------------------------------------------ tokens
Issuer == "cognito-pool"
NoKid == "nokid"
NoUser == "nouser"
\* An expiry no clock value of a run reaches.
Never == MaxTime + 1

KeyK1 == [kid |-> "k1", mat |-> "m1"]
KeyK2 == [kid |-> "k2", mat |-> "m2"]
\* The key sets the Cognito JWKS endpoint serves: before and after a rotation
\* that publishes a second key.
KeySets == {{KeyK1}, {KeyK1, KeyK2}}

Tok(kid, sig, iss, alg, exp, sub) ==
    [kid |-> kid, sig |-> sig, iss |-> iss, alg |-> alg, exp |-> exp, sub |-> sub]

TokGood    == Tok("k1", "m1", Issuer, "RS256", Never, "u1")
TokRotated == Tok("k2", "m2", Issuer, "RS256", Never, "u2")
TokNoKid   == Tok(NoKid, "m1", Issuer, "RS256", Never, "u1")
TokForged  == Tok("k1", "forged", Issuer, "RS256", Never, "u1")
TokBadIss  == Tok("k1", "m1", "other-pool", "RS256", Never, "u1")
TokHS256   == Tok("k1", "m1", Issuer, "HS256", Never, "u1")
TokExpired == Tok("k1", "m1", Issuer, "RS256", 0, "u1")
TokShort   == Tok("k1", "m1", Issuer, "RS256", 1, "u1")
Tokens == {TokGood, TokRotated, TokNoKid, TokForged, TokBadIss, TokHS256,
           TokExpired, TokShort}

\* ------------------------------------------------------------------- state
VARIABLES
    now,            \* Date.now()
    srcKeys,        \* the key set the JWKS endpoint currently serves
    jwksCache,      \* auth.ts: jwksCache ([isNull, keys]: null until fetched)
    jwksLastFetch,  \* auth.ts: jwksLastFetch
    vcall,          \* per caller: the validateToken call it is running
    registry,       \* the connections table: connectionId -> row
    messages,       \* the Messages table
    uuid,           \* number of uuidv4() values drawn so far
    resp,           \* per connection: last response of the connect/disconnect routes
    mw,             \* per connection: the webSocketAuthMiddleware call in progress
    hm,             \* per connection: the handleMessage call in progress
    sio,            \* per socket: the Socket.io handshake (socketAuthMiddleware)
    svc,            \* the last direct call of a service or utility function
    apiGateway      \* messageService.ts: the memoized API Gateway client (its endpoint)

verifierVars == <<now, srcKeys, jwksCache, jwksLastFetch, vcall>>
gatewayVars == <<registry, messages, uuid, resp, mw, hm>>
vars == <<now, srcKeys, jwksCache, jwksLastFetch, vcall,
          registry, messages, uuid, resp, mw, hm, sio, svc, apiGateway>>

NullCache == [isNull |-> TRUE, keys |-> {}]
IdleCall == [pc |-> "idle", tok |-> TokNoKid, t0 |-> 0, fetched |-> 0,
             res |-> "none"]

\* -------------------------------------------------------------- verifier
\* Mutant of CacheStaleAt: the age test written with >= instead of >.
CacheStaleAtGe(cache, last, t) == cache.isNull \/ t - last >= CACHE_TTL

\* getJwks, line 23: the cache is missing or older than the TTL.
CacheStaleAt(cache, last, t) == cache.isNull \/ t - last > CACHE_TTL

CacheStale == CacheStaleAt(jwksCache, jwksLastFetch, now)

\* validateToken, line 47: jwt.decode gave no header or the header has no kid.
BadFormat(tok) == tok.kid = NoKid

\* Mutant of JwtVerify: jwt.verify called without the algorithms option.
JwtVerifyAnyAlg(tok, key, t) ==
    /\ tok.sig = key.mat
    /\ tok.iss = Issuer
    /\ t < tok.exp

\* jwt.verify(token, pem, {issuer, algorithms: ["RS256"]}): the algorithm
\* allow-list, the signature under the key, the issuer and the expiry.
JwtVerify(tok, key, t) ==
    /\ tok.alg = "RS256"
    /\ tok.sig = key.mat
    /\ tok.iss = Issuer
    /\ t < tok.exp

\* validateToken, lines 53-73, on the key set getJwks returned.
VerifyWith(tok, keys, t) ==
    IF ~ \E k \in keys : k.kid = tok.kid
    THEN "KeyNotFound"
    ELSE LET key == CHOOSE k \in keys : k.kid = tok.kid
         IN  IF JwtVerify(tok, key, t) THEN "ok" ELSE "InvalidToken"

\* Mutant of StartCall: a kid missing from a fresh cache triggers a re-fetch.
StartCallRefetchOnMiss(tok) ==
    IF BadFormat(tok)
    THEN [pc |-> "done", tok |-> tok, t0 |-> now, fetched |-> 0,
          res |-> "InvalidFormat"]
    ELSE IF CacheStale \/ ~ \E k \in jwksCache.keys : k.kid = tok.kid
    THEN [pc |-> "fetching", tok |-> tok, t0 |-> now, fetched |-> 1,
          res |-> "none"]
    ELSE [pc |-> "done", tok |-> tok, t0 |-> now, fetched |-> 0,
          res |-> VerifyWith(tok, jwksCache.keys, now)]

\* validateToken up to its first suspension: a malformed token fails at once,
\* a fresh cache is used as it is, otherwise a fetch is issued (getJwks, 25).
StartCall(tok) ==
    IF BadFormat(tok)
    THEN [pc |-> "done", tok |-> tok, t0 |-> now, fetched |-> 0,
          res |-> "InvalidFormat"]
    ELSE IF CacheStale
    THEN [pc |-> "fetching", tok |-> tok, t0 |-> now, fetched |-> 1,
          res |-> "none"]
    ELSE [pc |-> "done", tok |-> tok, t0 |-> now, fetched |-> 0,
          res |-> VerifyWith(tok, jwksCache.keys, now)]

\* A direct call of validateToken(token).
ValidateToken(i, tok) ==
    /\ vcall[i].pc = "idle"
    /\ vcall' = [vcall EXCEPT ![i] = StartCall(tok)]
    /\ UNCHANGED <<now, srcKeys, jwksCache, jwksLastFetch>>
    /\ UNCHANGED <<gatewayVars, sio, svc, apiGateway>>

\* getJwks, lines 26-27 and 34: the response arrives; the cache and the
\* timestamp (the "now" read when the call began) are set, and validateToken
\* goes on with the key set now cached.
FetchOk(i) ==
    /\ vcall[i].pc = "fetching"
    /\ jwksCache' = [isNull |-> FALSE, keys |-> srcKeys]
    /\ jwksLastFetch' = vcall[i].t0
    /\ vcall' = [vcall EXCEPT ![i].pc = "done",
                              ![i].res = VerifyWith(vcall[i].tok, srcKeys, now)]
    /\ UNCHANGED <<now, srcKeys, gatewayVars, sio, svc, apiGateway>>

\* Mutant of FetchFail: when the request fails, the key set cached before is
\* served.
FetchFailServesStale(i) ==
    /\ vcall[i].pc = "fetching"
    /\ vcall' = [vcall EXCEPT ![i].pc = "done",
                   ![i].res = IF jwksCache.isNull THEN "JwksUnavailable"
                              ELSE VerifyWith(vcall[i].tok, jwksCache.keys, now)]
    /\ UNCHANGED <<now, srcKeys, jwksCache, jwksLastFetch, gatewayVars, sio, svc, apiGateway>>

\* getJwks, lines 28-31: the request failed.
FetchFail(i) ==
    /\ vcall[i].pc = "fetching"
    /\ vcall' = [vcall EXCEPT ![i].pc = "done", ![i].res = "JwksUnavailable"]
    /\ UNCHANGED <<now, srcKeys, jwksCache, jwksLastFetch, gatewayVars, sio, svc, apiGateway>>

\* The caller has taken the result; it may call again.
Return(i) ==
    /\ vcall[i].pc = "done"
    /\ vcall' = [vcall EXCEPT ![i] = IdleCall]
    /\ UNCHANGED <<now, srcKeys, jwksCache, jwksLastFetch, gatewayVars, sio, svc, apiGateway>>

Tick ==
    /\ now < MaxTime
    /\ now' = now + 1
    /\ UNCHANGED <<srcKeys, jwksCache, jwksLastFetch, vcall, gatewayVars, sio, svc, apiGateway>>

\* Cognito rotates the signing keys.
RotateKeys ==
    /\ \E ks \in KeySets : ks # srcKeys /\ srcKeys' = ks
    /\ UNCHANGED <<now, jwksCache, jwksLastFetch, vcall, gatewayVars, sio, svc, apiGateway>>

\* ---------------------------------------------------- connection registry
NoRow == [present |-> FALSE, userId |-> NoUser, timestamp |-> 0, ttl |-> 0]

\* Date.now(), in milliseconds.
DateNow == now * TickMs

\* Mutant of AddConnection: the user data is left out of the row.
AddConnectionNoUser(reg, c, user) ==
    [reg EXCEPT ![c] = [present |-> TRUE, userId |-> NoUser,
                        timestamp |-> DateNow,
                        ttl |-> (DateNow \div MsPerSecond) + ConnectionTtl]]

\* Mutant of AddConnection: the TTL is counted from the milliseconds.
AddConnectionTtlFromMs(reg, c, user) ==
    [reg EXCEPT ![c] = [present |-> TRUE, userId |-> user,
                        timestamp |-> DateNow,
                        ttl |-> DateNow + ConnectionTtl]]

\* connectionService.addConnection: PutItem of the row under its connectionId
\* (userData carries the userId when the caller has one), with the time of
\* the call and the expiry Math.floor(timestamp / 1000) + 60 * 60 * 2.
AddConnection(reg, c, user) ==
    [reg EXCEPT ![c] = [present |-> TRUE, userId |-> user,
                        timestamp |-> DateNow,
                        ttl |-> (DateNow \div MsPerSecond) + ConnectionTtl]]

\* connectionService.removeConnection: DeleteItem by connectionId.
RemoveConnection(reg, c) == [reg EXCEPT ![c] = NoRow]

\* A row whose expiry (epoch seconds) is earlier than the current time.
Expired(row) == row.present /\ row.ttl < DateNow \div MsPerSecond

\* The time to live of the rows passes: the clock jumps by ConnectionTtl and
\* two seconds more, in ticks.
TtlElapses ==
    /\ now <= MaxTime
    /\ now' = now + ((ConnectionTtl + 2) * MsPerSecond) \div TickMs
    /\ UNCHANGED <<srcKeys, jwksCache, jwksLastFetch, vcall, gatewayVars, sio, svc, apiGateway>>

\* The store's time-to-live sweep deletes an expired row, at a time of its
\* own choosing.
TtlSweep(c) ==
    /\ Expired(registry[c])
    /\ registry' = RemoveConnection(registry, c)
    /\ UNCHANGED <<verifierVars, messages, uuid, resp, mw, hm, sio, svc, apiGateway>>

\* ----------------------------------- direct calls of connectionService
\* A direct call of a service or utility function and what it gave: raw is
\* the exception the store raised inside it (none: ""), res whether it
\* returned or threw, err the message of what it threw, items the rows or
\* messages it returned, code and status the fields of an AppError, msg an
\* error message as the sequence of its words or a string as the sequence
\* of its characters, key and val a string argument and a string result.
NoCall == [op |-> "none", arg |-> "", raw |-> "", res |-> "none", err |-> "",
           code |-> "", status |-> 0, items |-> <<>>, msg |-> <<>>,
           key |-> <<>>, val |-> <<>>]

\* Exceptions of the DynamoDB client.
StoreErrors == {"ProvisionedThroughputExceededException", "InternalServerError"}

ConnectionOps == {"addConnection", "removeConnection", "getConnections",
                  "findConnectionsByUserData"}

\* The orders in which a store may return the elements of S.
Orders(S) ==
    {q \in [1..Cardinality(S) -> S] :
        \A i, j \in 1..Cardinality(S) : i # j => q[i] # q[j]}

\* Mutant of RegistryError: the store's exception is passed on as it is.
RegistryErrorRaw(op, raw) == raw

\* The catch blocks of connectionService (lines 30-33, 43-46, 57-60,
\* 85-88): whatever the store raised, a new Error with a fixed message.
RegistryError(op, raw) ==
    CASE op = "addConnection" -> "Failed to add connection"
      [] op = "removeConnection" -> "Failed to remove connection"
      [] op = "getConnections" -> "Failed to fetch connections"
      [] OTHER -> "Failed to find connections"

\* addConnection(c, { userId: user }) called directly; the PutItem succeeds.
AddConnectionCall(c, user) ==
    /\ registry' = AddConnection(registry, c, user)
    /\ svc' = [NoCall EXCEPT !.op = "addConnection", !.arg = c, !.res = "ok"]
    /\ UNCHANGED <<verifierVars, messages, uuid, resp, mw, hm, sio, apiGateway>>

\* removeConnection(c) called directly; the DeleteItem succeeds.
RemoveConnectionCall(c) ==
    /\ registry' = RemoveConnection(registry, c)
    /\ svc' = [NoCall EXCEPT !.op = "removeConnection", !.arg = c, !.res = "ok"]
    /\ UNCHANGED <<verifierVars, messages, uuid, resp, mw, hm, sio, apiGateway>>

\* getConnections(): the rows of the table, in the order the Scan gives.
GetConnections ==
    /\ \E q \in Orders({c \in Ids : registry[c].present}) :
          svc' = [NoCall EXCEPT !.op = "getConnections", !.res = "ok", !.items = q]
    /\ UNCHANGED <<verifierVars, gatewayVars, sio, apiGateway>>

\* findConnectionsByUserData("userId", user): the rows the filter keeps.
FindConnectionsByUserData(user) ==
    /\ \E q \in Orders({c \in Ids : registry[c].present
                                       /\ registry[c].userId = user}) :
          svc' = [NoCall EXCEPT !.op = "findConnectionsByUserData", !.arg = user,
                                !.res = "ok", !.items = q]
    /\ UNCHANGED <<verifierVars, gatewayVars, sio, apiGateway>>

\* A call of connectionService during which the store raises: the catch
\* block of the method throws its own Error.
ConnectionServiceFail(op, c, raw) ==
    /\ svc' = [NoCall EXCEPT !.op = op, !.arg = c, !.raw = raw, !.res = "throw",
                            !.err = RegistryError(op, raw)]
    /\ UNCHANGED <<verifierVars, gatewayVars, sio, apiGateway>>

\* ------------------------------------------- utils/errorHandler.ts
\* String.prototype.includes on messages held as sequences of words: the
\* words of phrase occur in msg one after the other, in the same case.
Includes(msg, phrase) ==
    \E i \in 1..Len(msg) :
        /\ i + Len(phrase) - 1 <= Len(msg)
        /\ SubSeq(msg, i, i + Len(phrase) - 1) = phrase

\* The AppError classes, lines 9-84: message, statusCode and errorCode.
AppError(message, statusCode, errorCode) ==
    [message |-> message, statusCode |-> statusCode, errorCode |-> errorCode]
AuthError(message, errorCode) == AppError(message, 401, errorCode)
RateLimitError(message) == AppError(message, 429, "RATE_LIMIT_EXCEEDED")

\* Mutant of HandleAuthErrorResult: 'invalid token' is tested first.
HandleAuthErrorInvalidFirst(msg, code) ==
    IF Includes(msg, <<"invalid", "token">>)
    THEN AuthError(<<"Invalid authentication token.">>, "INVALID_TOKEN")
    ELSE IF Includes(msg, <<"token", "expired">>)
    THEN AuthError(<<"Your session has expired. Please reconnect.">>,
                   "TOKEN_EXPIRED")
    ELSE AuthError(IF msg = <<>> THEN <<"Authentication failed">> ELSE msg,
                   "AUTH_ERROR")

\* handleAuthError, lines 93-121; msg is error.message and code error.code
\* ("" when the error has none).
HandleAuthErrorResult(msg, code) ==
    LET errorMessage == IF msg = <<>> THEN <<"Authentication failed">> ELSE msg
        errorCode == IF code = "" THEN "AUTH_ERROR" ELSE code
    IN  IF Includes(errorMessage, <<"token", "expired">>)
        THEN AuthError(<<"Your session has expired. Please reconnect.">>,
                       "TOKEN_EXPIRED")
        ELSE IF Includes(errorMessage, <<"invalid", "token">>)
        THEN AuthError(<<"Invalid authentication token.">>, "INVALID_TOKEN")
        ELSE IF Includes(errorMessage, <<"unauthorized">>)
        THEN AuthError(<<"Unauthorized access.">>, "UNAUTHORIZED")
        ELSE IF Includes(errorMessage, <<"rate", "limit">>)
        THEN RateLimitError(
               <<"Too many authentication attempts. Please try again later.">>)
        ELSE AuthError(errorMessage, errorCode)

\* The error messages handleAuthError is called with: every message of at
\* most MaxWords words over the words of its rules, "Invalid" (the
\* verifier's own messages, auth.ts lines 48-72, begin with a capital) and
\* "jwt" (jsonwebtoken's message for an expired token is "jwt expired");
\* the empty one is an error with no message.
Vocabulary == {"token", "expired", "invalid", "unauthorized", "rate", "limit",
               "Invalid", "jwt"}
AuthErrorMessages == UNION {[1..n -> Vocabulary] : n \in 0..MaxWords}
\* error.code: none, or the code of a failed connection to the key source.
AuthErrorCodes == {"", "ECONNREFUSED"}

\* A call handleAuthError(error).
HandleAuthError(msg, code) ==
    /\ svc.op = "none"
    /\ svc' = [NoCall EXCEPT !.op = "handleAuthError", !.msg = msg, !.raw = code,
                            !.res = "ok",
                            !.items = HandleAuthErrorResult(msg, code).message,
                            !.code = HandleAuthErrorResult(msg, code).errorCode,
                            !.status = HandleAuthErrorResult(msg, code).statusCode]
    /\ UNCHANGED <<verifierVars, gatewayVars, sio, apiGateway>>

\* The caller of an error mapper has taken its result.
MapperReturn ==
    /\ svc.op \in {"handleAuthError", "handleDynamoDBError", "sendSocketError",
                 "withErrorHandling", "sendToClient"}
    /\ svc' = NoCall
    /\ UNCHANGED <<verifierVars, gatewayVars, sio, apiGateway>>

\* The names a DynamoDB error comes with: those of the switch of
\* handleDynamoDBError, one it does not know, and none at all.
DynamoErrorNames ==
    {"ConditionalCheckFailedException", "ProvisionedThroughputExceededException",
     "ResourceNotFoundException", "TransactionCanceledException",
     "ItemCollectionSizeLimitExceededException", "ValidationException",
     "InternalServerError", "ThrottlingException", ""}

\* handleDynamoDBError, lines 245-308; name is error.name || error.code.
HandleDynamoDBErrorResult(name, msg) ==
    CASE name = "ConditionalCheckFailedException" ->
           AppError(<<"The condition for the operation was not met.">>, 400,
                    "CONDITION_FAILED")
      [] name = "ProvisionedThroughputExceededException" ->
           RateLimitError(<<"Database capacity exceeded. Please try again later.">>)
      [] name = "ResourceNotFoundException" ->
           AppError(<<"The requested resource was not found.">>, 404,
                    "RESOURCE_NOT_FOUND")
      [] name = "TransactionCanceledException" ->
           AppError(<<"The transaction was canceled.">>, 409,
                    "TRANSACTION_CANCELED")
      [] name = "ItemCollectionSizeLimitExceededException" ->
           AppError(<<"Item collection size limit exceeded.">>, 413,
                    "COLLECTION_SIZE_LIMIT")
      [] name = "ValidationException" ->
           AppError(IF msg = <<>> THEN <<"Invalid data provided.">> ELSE msg,
                    400, "VALIDATION_ERROR")
      [] name = "InternalServerError" ->
           AppError(<<"DynamoDB service encountered an internal error.">>, 500,
                    "DYNAMODB_INTERNAL_ERROR")
      [] OTHER -> AppError(<<"A database error occurred.">>, 500, "DYNAMODB_ERROR")

\* A call handleDynamoDBError(error).
HandleDynamoDBError(name, msg) ==
    /\ svc.op = "none"
    /\ svc' = [NoCall EXCEPT !.op = "handleDynamoDBError", !.msg = msg,
                            !.raw = name, !.res = "ok",
                            !.items = HandleDynamoDBErrorResult(name, msg).message,
                            !.code = HandleDynamoDBErrorResult(name, msg).errorCode,
                            !.status = HandleDynamoDBErrorResult(name, msg).statusCode]
    /\ UNCHANGED <<verifierVars, gatewayVars, sio, apiGateway>>

\* ------------------------------- sendSocketError and withErrorHandling
\* An error as sendSocketError sees it: an instance of AppError or not, its
\* message, its code (plain errors) and its statusCode and errorCode
\* (AppErrors).
PlainError(msg, code) ==
    [isApp |-> FALSE, message |-> msg, code |-> code, statusCode |-> 0,
     errorCode |-> ""]
AppErrorThrown(e) ==
    [isApp |-> TRUE, message |-> e.message, code |-> "",
     statusCode |-> e.statusCode, errorCode |-> e.errorCode]

\* String.prototype.toLowerCase on a message held as words.
LowerCase(msg) ==
    [i \in DOMAIN msg |-> IF msg[i] = "Invalid" THEN "invalid" ELSE msg[i]]

\* String.prototype.includes for a part of one word: among the words of the
\* messages "auth" stands alone and inside "unauthorized", every other part
\* only in the word it is.
IncludesPart(msg, part) ==
    \E i \in DOMAIN msg :
        msg[i] = part \/ (part = "auth" /\ msg[i] = "unauthorized")

\* sendSocketError, lines 137-160: the AppError whose message, errorCode and
\* statusCode are emitted to the socket.
SendSocketErrorPayload(error) ==
    LET lower == LowerCase(error.message)
    IN  IF error.isApp
        THEN AppError(error.message, error.statusCode, error.errorCode)
        ELSE IF IncludesPart(lower, "unauthorized") \/ IncludesPart(lower, "token")
        THEN AuthError(IF error.message = <<>>
                       THEN <<"Authentication required">> ELSE error.message,
                       "AUTH_REQUIRED")
        ELSE IF IncludesPart(lower, "auth")
        THEN HandleAuthErrorResult(error.message, error.code)
        ELSE AppError(IF error.message = <<>>
                      THEN <<"An unexpected error occurred">> ELSE error.message,
                      500, "INTERNAL_SERVER_ERROR")

\* The errors sendSocketError is given: plain errors with every message of
\* at most MaxWords words over the vocabulary and "auth", and AppErrors.
SocketErrors ==
    {PlainError(msg, code) :
        msg \in UNION {[1..n -> Vocabulary \cup {"auth"}] : n \in 0..MaxWords},
        code \in AuthErrorCodes}
    \cup {AppErrorThrown(RateLimitError(<<"rate", "limit">>)),
          AppErrorThrown(AuthError(<<"token", "expired">>, "TOKEN_EXPIRED"))}

\* A call sendSocketError(socket, error): arg tells an AppError from a plain
\* error, msg and raw are its message and code, items, code and status the
\* payload emitted.
SendSocketError(error) ==
    /\ svc.op = "none"
    /\ svc' = [NoCall EXCEPT !.op = "sendSocketError",
                            !.arg = IF error.isApp THEN "AppError" ELSE "Error",
                            !.msg = error.message, !.raw = error.code,
                            !.res = "ok",
                            !.items = SendSocketErrorPayload(error).message,
                            !.code = SendSocketErrorPayload(error).errorCode,
                            !.status = SendSocketErrorPayload(error).statusCode]
    /\ UNCHANGED <<verifierVars, gatewayVars, sio, apiGateway>>

\* The arguments an event handler is invoked with after the socket: each is
\* a function or data; MaxArgs of them at most.
MaxArgs == 2
HandlerArgs == UNION {[1..n -> {"data", "fn"}] : n \in 0..MaxArgs}

\* The error object withErrorHandling hands to a callback, lines 218-232.
CallbackError(error) ==
    IF error.isApp
    THEN AppError(error.message, error.statusCode, error.errorCode)
    ELSE AppError(IF error.message = <<>>
                  THEN <<"An unexpected error occurred">> ELSE error.message,
                  500, "INTERNAL_SERVER_ERROR")

\* withErrorHandling, lines 194-235: the invocations of the functions among
\* args, each with the position of the function invoked and what it was
\* given.  Line 199 pops a callback off args before the handler runs, so the
\* catch block looks at what is left of args.
AckCalls(args, thrown, error) ==
    LET hasCallback == Len(args) > 0 /\ args[Len(args)] = "fn"
        left == IF hasCallback THEN SubSeq(args, 1, Len(args) - 1) ELSE args
    IN  IF ~thrown
        THEN IF hasCallback
             THEN <<[pos |-> Len(args), with |-> "result",
                     errorCode |-> "", status |-> 0]>>
             ELSE <<>>
        ELSE IF Len(left) > 0 /\ left[Len(left)] = "fn"
             THEN <<[pos |-> Len(left), with |-> "error",
                     errorCode |-> CallbackError(error).errorCode,
                     status |-> CallbackError(error).statusCode]>>
             ELSE <<>>

\* A call of a wrapped handler that resolves.
WithErrorHandlingResolves(args) ==
    /\ svc.op = "none"
    /\ svc' = [NoCall EXCEPT !.op = "withErrorHandling", !.items = args,
                            !.res = "ok",
                            !.val = AckCalls(args, FALSE, PlainError(<<>>, ""))]
    /\ UNCHANGED <<verifierVars, gatewayVars, sio, apiGateway>>

\* A call of a wrapped handler that throws error: sendSocketError emits the
\* payload (code and status), then the callback is looked for.
WithErrorHandlingThrows(args, error) ==
    /\ svc.op = "none"
    /\ svc' = [NoCall EXCEPT !.op = "withErrorHandling", !.items = args,
                            !.res = "throw", !.msg = error.message,
                            !.code = SendSocketErrorPayload(error).errorCode,
                            !.status = SendSocketErrorPayload(error).statusCode,
                            !.val = AckCalls(args, TRUE, error)]
    /\ UNCHANGED <<verifierVars, gatewayVars, sio, apiGateway>>

\* ------------------------------------------------------ utils/cookie.ts
\* A string is the sequence of its characters.
\* String.prototype.split for a separator of at least one character.
RECURSIVE Split(_, _)
Split(s, sep) ==
    LET hits == {i \in 1..(Len(s) - Len(sep) + 1) :
                     SubSeq(s, i, i + Len(sep) - 1) = sep}
    IN  IF hits = {} THEN <<s>>
        ELSE LET i == CHOOSE j \in hits : \A k \in hits : j <= k
             IN  <<SubSeq(s, 1, i - 1)>>
                   \o Split(SubSeq(s, i + Len(sep), Len(s)), sep)

\* Array.prototype.join.
RECURSIVE Join(_, _)
Join(parts, sep) ==
    IF parts = <<>> THEN <<>>
    ELSE IF Len(parts) = 1 THEN parts[1]
    ELSE parts[1] \o sep \o Join(Tail(parts), sep)

\* Mutant of CookieEntry: the value is what stands between the first and
\* the second "=".
CookieEntryFirstPart(c) ==
    LET parts == Split(c, <<"=">>)
    IN  [key |-> Head(parts),
         value |-> IF Len(parts) > 1 THEN parts[2] ELSE <<>>]

\* The callback of map in parseCookies, lines 14-18: the key is what stands
\* before the first "=", the value all the rest.
CookieEntry(c) ==
    LET parts == Split(c, <<"=">>)
    IN  [key |-> Head(parts), value |-> Join(Tail(parts), <<"=">>)]

\* Object.fromEntries: of two entries with one key the later one stays.
FromEntries(entries) ==
    [k \in {entries[i].key : i \in DOMAIN entries} |->
        entries[CHOOSE i \in DOMAIN entries :
                   /\ entries[i].key = k
                   /\ \A j \in DOMAIN entries : entries[j].key = k => j <= i].value]

\* parseCookies, lines 8-20: the mapping from cookie names to values.
ParseCookies(cookieHeader) ==
    IF cookieHeader = <<>> THEN FromEntries(<<>>)
    ELSE LET cs == Split(cookieHeader, <<";", " ">>)
         IN  FromEntries([i \in DOMAIN cs |-> CookieEntry(cs[i])])

\* getCookie, lines 28-34: the property cookieName of the mapping, which is
\* undefined when the mapping has none.
GetCookieResult(cookieHeader, cookieName) ==
    LET cookies == ParseCookies(cookieHeader)
    IN  IF cookieName \in DOMAIN cookies
        THEN [defined |-> TRUE, value |-> cookies[cookieName]]
        ELSE [defined |-> FALSE, value |-> <<>>]

\* The cookie headers getCookie is called with: at most MaxCookies pairs
\* name=value joined with "; ", the values of at most MaxValueLen characters
\* and "=" one of them.
MaxCookies == 2
MaxValueLen == 2
CookieNames == {<<"a">>, <<"b">>, <<"a", "b">>}
CookieValues == UNION {[1..n -> {"x", "="}] : n \in 0..MaxValueLen}
CookiePairs ==
    UNION {[1..n -> [name : CookieNames, value : CookieValues]] :
              n \in 0..MaxCookies}
CookieHeader(pairs) ==
    Join([i \in DOMAIN pairs |-> pairs[i].name \o <<"=">> \o pairs[i].value],
         <<";", " ">>)

\* A call getCookie(cookieHeader, cookieName) with the header of pairs.
GetCookie(pairs, cookieName) ==
    LET r == GetCookieResult(CookieHeader(pairs), cookieName)
    IN  /\ svc.op = "none"
        /\ svc' = [NoCall EXCEPT !.op = "getCookie", !.items = pairs,
                                !.msg = CookieHeader(pairs), !.key = cookieName,
                                !.res = IF r.defined THEN "ok" ELSE "undefined",
                                !.val = r.value]
        /\ UNCHANGED <<verifierVars, gatewayVars, sio, apiGateway>>

\* The caller of getCookie has taken the value.
GetCookieReturn ==
    /\ svc.op = "getCookie"
    /\ svc' = NoCall
    /\ UNCHANGED <<verifierVars, gatewayVars, sio, apiGateway>>

\* ------------------------------------------------------------ cookie header
\* The Cookie header of an event: absent, present without the auth cookie
\* (or with an empty value), or carrying a token in the auth cookie.
HdrNone == [has |-> FALSE, auth |-> FALSE, tok |-> TokNoKid]
HdrOther == [has |-> TRUE, auth |-> FALSE, tok |-> TokNoKid]
HdrTok(t) == [has |-> TRUE, auth |-> TRUE, tok |-> t]
Headers == {HdrNone, HdrOther} \cup {HdrTok(t) : t \in Tokens}
\* The headers the API Gateway mode is driven with: one per outcome of the
\* middleware (no header, no auth cookie, a valid and an expired token).
GatewayHeaders == {HdrNone, HdrOther, HdrTok(TokGood), HdrTok(TokExpired)}
\* The API Gateway mode runs every handler of one connection in every
\* interleaving; the auth gate alone is run for all connections.
GatewayConns == {"c1"}

\* authenticateFromCookie: the payload's subject, or null for every failure
\* of validateToken (the catch at line 88 returns null whatever was thrown).
AuthenticateFromCookie(call) == IF call.res = "ok" THEN call.tok.sub ELSE NoUser

\* ------------------------------------------- routes of the API Gateway mode
\* The last answer of a connect or disconnect route; inflight tells, for a
\* disconnect that removed the row, whether a webSocketAuthMiddleware call
\* of the connection was running at that moment.
NoResp == [op |-> "none", status |-> 0, inflight |-> FALSE]
Resp(c, op, status) ==
    [op |-> op, status |-> status,
     inflight |-> /\ op = "disconnect" /\ status = 200
                  /\ mw[c].pc \notin {"idle", "done"}]

\* handleConnect: stores the connection, with no user, and answers 200.
HandleConnectOk(c) ==
    /\ registry' = AddConnection(registry, c, NoUser)
    /\ resp' = [resp EXCEPT ![c] = Resp(c, "connect", 200)]
    /\ UNCHANGED <<verifierVars, messages, uuid, mw, hm, sio, svc, apiGateway>>

\* handleConnect when addConnection throws.
HandleConnectFail(c) ==
    /\ resp' = [resp EXCEPT ![c] = Resp(c, "connect", 500)]
    /\ UNCHANGED <<verifierVars, registry, messages, uuid, mw, hm, sio, svc, apiGateway>>

HandleDisconnectOk(c) ==
    /\ registry' = RemoveConnection(registry, c)
    /\ resp' = [resp EXCEPT ![c] = Resp(c, "disconnect", 200)]
    /\ UNCHANGED <<verifierVars, messages, uuid, mw, hm, sio, svc, apiGateway>>

HandleDisconnectFail(c) ==
    /\ resp' = [resp EXCEPT ![c] = Resp(c, "disconnect", 500)]
    /\ UNCHANGED <<verifierVars, registry, messages, uuid, mw, hm, sio, svc, apiGateway>>

\* lambda.ts handleWebSocketEvent: $connect and $disconnect are answered 200
\* at once, whatever the headers of the event.
LambdaRoute(c, routeKey) ==
    /\ routeKey \in {"$connect", "$disconnect"}
    /\ resp' = [resp EXCEPT ![c] = Resp(c, routeKey, 200)]
    /\ UNCHANGED <<verifierVars, registry, messages, uuid, mw, hm, sio, svc, apiGateway>>

\* ------------------------------------------------ webSocketAuthMiddleware
IdleMw == [pc |-> "idle", status |-> 0, body |-> "", user |-> NoUser,
           vres |-> "none", thrown |-> FALSE]

\* The properties of the object the middleware returns: lines 40-43, 52-55,
\* 63-66 and 99-102 give a statusCode and a body holding a message, lines
\* 77-81 a statusCode, the user and the requestId; a rejected call returns
\* nothing.
MwResponseFields(m) ==
    IF m.thrown THEN {}
    ELSE IF m.status = 200 THEN {"statusCode", "user", "requestId"}
    ELSE {"statusCode", "message"}

\* The errorCode property of the returned object: no return statement of
\* the middleware sets one.
Undefined == "undefined"
MwErrorCode(m) == Undefined

\* Lines 35-59: the cookie header, the auth cookie, then the verifier.
MwBegin(h) ==
    IF ~h.has \/ ~h.auth
    THEN [IdleMw EXCEPT !.pc = "remove", !.status = 401,
                        !.body = "Missing authentication token"]
    ELSE [IdleMw EXCEPT !.pc = "auth"]

WebSocketAuthMiddleware(c, h) ==
    /\ mw[c].pc = "idle"
    /\ vcall[c].pc = "idle"
    /\ mw' = [mw EXCEPT ![c] = MwBegin(h)]
    /\ vcall' = IF h.has /\ h.auth THEN [vcall EXCEPT ![c] = StartCall(h.tok)]
                ELSE vcall
    /\ UNCHANGED <<now, srcKeys, jwksCache, jwksLastFetch,
                   registry, messages, uuid, resp, hm, sio, svc, apiGateway>>

\* Lines 59-70: what the middleware does with the result of
\* authenticateFromCookie.
MwAfterAuth(m, call) ==
    IF AuthenticateFromCookie(call) = NoUser
    THEN [m EXCEPT !.pc = "remove", !.status = 401, !.vres = call.res,
                   !.body = "Invalid authentication token"]
    ELSE [m EXCEPT !.pc = "add", !.vres = call.res,
                   !.user = AuthenticateFromCookie(call)]

MwAuthenticated(c) ==
    /\ mw[c].pc = "auth"
    /\ vcall[c].pc = "done"
    /\ mw' = [mw EXCEPT ![c] = MwAfterAuth(mw[c], vcall[c])]
    /\ vcall' = [vcall EXCEPT ![c] = IdleCall]
    /\ UNCHANGED <<now, srcKeys, jwksCache, jwksLastFetch,
                   registry, messages, uuid, resp, hm, sio, svc, apiGateway>>

\* Lines 39, 51, 62: removeConnection succeeded; the 401 is returned.
MwRemoveOk(c) ==
    /\ mw[c].pc = "remove"
    /\ registry' = RemoveConnection(registry, c)
    /\ mw' = [mw EXCEPT ![c].pc = "done"]
    /\ UNCHANGED <<verifierVars, messages, uuid, resp, hm, sio, svc, apiGateway>>

\* removeConnection threw inside the try block: control goes to the catch.
MwRemoveFail(c) ==
    /\ mw[c].pc = "remove"
    /\ mw' = [mw EXCEPT ![c].pc = "catch", ![c].status = 0, ![c].body = ""]
    /\ UNCHANGED <<verifierVars, registry, messages, uuid, resp, hm, sio, svc, apiGateway>>

\* Lines 70-81: the row is written with the user's id; 200 is returned.
MwAddOk(c) ==
    /\ mw[c].pc = "add"
    /\ registry' = AddConnection(registry, c, mw[c].user)
    /\ mw' = [mw EXCEPT ![c].pc = "done", ![c].status = 200]
    /\ UNCHANGED <<verifierVars, messages, uuid, resp, hm, sio, svc, apiGateway>>

MwAddFail(c) ==
    /\ mw[c].pc = "add"
    /\ mw' = [mw EXCEPT ![c].pc = "catch", ![c].user = NoUser]
    /\ UNCHANGED <<verifierVars, registry, messages, uuid, resp, hm, sio, svc, apiGateway>>

\* Lines 97-102: the cleanup of the catch block succeeded; 500 is returned.
MwCatchRemoveOk(c) ==
    /\ mw[c].pc = "catch"
    /\ registry' = RemoveConnection(registry, c)
    /\ mw' = [mw EXCEPT ![c].pc = "done", ![c].status = 500,
                        ![c].body = "Authentication failed"]
    /\ UNCHANGED <<verifierVars, messages, uuid, resp, hm, sio, svc, apiGateway>>

\* Line 97: removeConnection throws inside the catch block; nothing handles
\* it, so the middleware's promise rejects.
MwCatchRemoveFail(c) ==
    /\ mw[c].pc = "catch"
    /\ mw' = [mw EXCEPT ![c].pc = "done", ![c].thrown = TRUE]
    /\ UNCHANGED <<verifierVars, registry, messages, uuid, resp, hm, sio, svc, apiGateway>>

\* The caller has taken the middleware's result.
MwReturn(c) ==
    /\ mw[c].pc = "done"
    /\ mw' = [mw EXCEPT ![c] = IdleMw]
    /\ UNCHANGED <<verifierVars, registry, messages, uuid, resp, hm, sio, svc, apiGateway>>

\* No await of the middleware has a timeout of its own (axios.get of getJwks
\* and the store calls are awaited without one): a call that does not
\* complete is ended by the Lambda runtime, at whichever await it stands,
\* and neither the try block nor the catch block runs any further.
MwTimeout(c) ==
    /\ mw[c].pc \in {"auth", "remove", "add", "catch"}
    /\ mw' = [mw EXCEPT ![c] = [IdleMw EXCEPT !.pc = "done",
                                             !.body = "Task timed out"]]
    /\ vcall' = [vcall EXCEPT ![c] = IdleCall]
    /\ UNCHANGED <<now, srcKeys, jwksCache, jwksLastFetch,
                   registry, messages, uuid, resp, hm, sio, svc, apiGateway>>

\* --------------------------------------- the API Gateway management client
\* The endpoint of an event: domainName and stage of its requestContext.
Endpoints == {<<"d1", "prod">>, <<"d1", "dev">>, <<"d2", "prod">>}
\* No client has been created yet (apiGateway is null).
NoClient == <<>>
\* The endpoint of the events the routes receive.
EventEndpoint == <<"d1", "prod">>

\* Mutant of GetApiGateway: a client is made for the endpoint of every event.
GetApiGatewayPerEvent(client, endpoint) == endpoint

\* getApiGateway, lines 124-135: the client (held as its endpoint) after the
\* call for an event of the given endpoint.
GetApiGateway(client, endpoint) ==
    IF client = NoClient THEN endpoint ELSE client

\* sendToClient(event, c, payload) called directly, lines 198-224, with the
\* transport's answer: delivered, another failure, gone with the row removed,
\* gone with removeConnection throwing.  key is the endpoint of the event,
\* val the endpoint of the client the command was sent with.
SendToClient(endpoint, c, out) ==
    /\ svc.op = "none"
    /\ apiGateway' = GetApiGateway(apiGateway, endpoint)
    /\ registry' = IF out = "gone" THEN RemoveConnection(registry, c)
                   ELSE registry
    /\ svc' = [NoCall EXCEPT !.op = "sendToClient", !.arg = c, !.raw = out,
                            !.key = endpoint,
                            !.val = GetApiGateway(apiGateway, endpoint),
                            !.res = CASE out = "ok" -> "true"
                                      [] out = "goneThrows" -> "throw"
                                      [] OTHER -> "false"]
    /\ UNCHANGED <<verifierVars, messages, uuid, resp, mw, hm, sio>>

\* ------------------------------------- handleMessage and the message relay
\* One handleMessage call: sends counts the PostToConnection commands it has
\* issued, out is the transport's answer, sent what sendToClient returned and
\* ret what persistAndSendMessage returned.  pruned is kept across the calls
\* of a connection: an earlier sendToClient has removed its row.
IdleHm == [pc |-> "idle", sid |-> 0, msg |-> 0, ts |-> 0, saved |-> FALSE,
           sends |-> 0,
           out |-> "none", sent |-> "none", ret |-> "none", status |-> 0,
           pruned |-> FALSE]

RouteEvents == {"badjson", "other", "customEvent"}

\* saveMessage, line 109: the 30 days of a message's TTL, in seconds.
MESSAGE_TTL_SECONDS == 60 * 60 * 24 * 30

\* handleMessage, lines 190-199: the content of the reply it relays.
Reply == "Hello from WebSocket!"

\* saveMessage, lines 155-165: the row put into the Messages table; ts is
\* the Date.now() of the call.
Message(id, c, sid, content, ts) ==
    [id |-> id, connectionId |-> c, sessionId |-> sid, content |-> content,
     timestamp |-> ts, ttl |-> (ts \div MsPerSecond) + MESSAGE_TTL_SECONDS]

\* Mutant of PutItem: the new row takes the place of the rows of the table.
PutItemReplacingAll(tbl, row) == {row}

\* dynamoDbClient.putItem on the Messages table, whose key is id: the row
\* takes the place of a row with the same id, if there is one.
PutItem(tbl, row) == {m \in tbl : m.id # row.id} \cup {row}

\* ------------------------------------- direct calls of messageService
Sessions == {"s1", "s2"}
Contents == {"hello", "bye"}
\* getSessionMessages, line 177: the default of its limit parameter.
DefaultLimit == 100

\* saveMessage(c, content, sid) called directly: the row is built with a
\* fresh uuid and the time of the call, the putItem succeeds, and the row
\* is returned.
SaveMessage(c, sid, content) ==
    /\ uuid + 1 <= MaxMsgs
    /\ uuid' = uuid + 1
    /\ messages' = PutItem(messages, Message(uuid + 1, c, sid, content, DateNow))
    /\ svc' = [NoCall EXCEPT !.op = "saveMessage", !.arg = sid, !.res = "ok",
                            !.items = <<Message(uuid + 1, c, sid, content, DateNow)>>]
    /\ UNCHANGED <<verifierVars, registry, resp, mw, hm, sio, apiGateway>>

\* saveMessage when the putItem raises: saveMessage has no catch, so the
\* store's exception is what its caller gets (the uuid is drawn before).
SaveMessageThrows(c, sid, raw) ==
    /\ uuid + 1 <= MaxMsgs
    /\ uuid' = uuid + 1
    /\ svc' = [NoCall EXCEPT !.op = "saveMessage", !.arg = sid, !.raw = raw,
                            !.res = "throw", !.err = raw]
    /\ UNCHANGED <<verifierVars, registry, messages, resp, mw, hm, sio, apiGateway>>

\* The first limit elements of a sequence.
Take(q, limit) == SubSeq(q, 1, IF limit < Len(q) THEN limit ELSE Len(q))

\* Mutant of SessionItems: the query leaves the key condition out.
SessionItemsOfAll(sid) == messages

\* The Query of getSessionMessages, lines 178-187: the rows of the index
\* sessionId-index whose sessionId is the one asked for.
SessionItems(sid) == {m \in messages : m.sessionId = sid}

\* getSessionMessages(sid, limit): the Query is answered.  The index has
\* sessionId as its only key (template.yaml, lines 81-86: a HASH key and no
\* RANGE key), so ScanIndexForward has no sort key to order by and the rows
\* of one session come in an order the store chooses.
GetSessionMessages(sid, limit) ==
    /\ \E q \in Orders(SessionItems(sid)) :
          svc' = [NoCall EXCEPT !.op = "getSessionMessages", !.arg = sid,
                                !.res = "ok", !.items = Take(q, limit)]
    /\ UNCHANGED <<verifierVars, gatewayVars, sio, apiGateway>>

\* getSessionMessages when the Query raises: there is no catch.
GetSessionMessagesThrows(sid, raw) ==
    /\ svc' = [NoCall EXCEPT !.op = "getSessionMessages", !.arg = sid,
                            !.raw = raw, !.res = "throw", !.err = raw]
    /\ UNCHANGED <<verifierVars, gatewayVars, sio, apiGateway>>

\* Mutant of PersistAndSendResult: the message is returned once it is saved.
PersistAndSendResultSaved(saved, success) ==
    IF saved THEN "message" ELSE "null"

\* persistAndSendMessage, lines 259-262: its return value.
PersistAndSendResult(saved, success) ==
    IF saved /\ success THEN "message" ELSE "null"

\* Mutant of HandleMessage: one session id is used for every customEvent.
HandleMessageOneSession(c, ev) ==
    /\ hm[c].pc = "idle"
    /\ ev = "customEvent" => uuid + 2 <= 2 * MaxMsgs
    /\ hm' = [hm EXCEPT ![c] =
                CASE ev = "badjson" -> [hm[c] EXCEPT !.pc = "done", !.status = 500]
                  [] ev = "other" -> [hm[c] EXCEPT !.pc = "done", !.status = 200]
                  [] OTHER -> [hm[c] EXCEPT !.pc = "save", !.sid = 1,
                                             !.msg = uuid + 2, !.ts = DateNow]]
    /\ uuid' = IF ev = "customEvent" THEN uuid + 2 ELSE uuid
    /\ UNCHANGED <<verifierVars, registry, messages, resp, mw, sio, svc, apiGateway>>

\* handleMessage, lines 179-204: JSON.parse may throw (500); a route other
\* than customEvent is acknowledged; customEvent draws a sessionId, builds
\* the message (a second uuid) and awaits putItem.
HandleMessage(c, ev) ==
    /\ hm[c].pc = "idle"
    /\ ev = "customEvent" => uuid + 2 <= 2 * MaxMsgs
    /\ hm' = [hm EXCEPT ![c] =
                CASE ev = "badjson" -> [hm[c] EXCEPT !.pc = "done", !.status = 500]
                  [] ev = "other" -> [hm[c] EXCEPT !.pc = "done", !.status = 200]
                  [] OTHER -> [hm[c] EXCEPT !.pc = "save", !.sid = uuid + 1,
                                             !.msg = uuid + 2, !.ts = DateNow]]
    /\ uuid' = IF ev = "customEvent" THEN uuid + 2 ELSE uuid
    /\ UNCHANGED <<verifierVars, registry, messages, resp, mw, sio, svc, apiGateway>>

\* saveMessage, line 167: putItem succeeded; sendToClient then takes the
\* API Gateway client (line 204) and issues the PostToConnection command
\* (lines 206-211).
SaveMessageOk(c) ==
    /\ hm[c].pc = "save"
    /\ messages' = PutItem(messages,
                            Message(hm[c].msg, c, hm[c].sid, Reply, hm[c].ts))
    /\ hm' = [hm EXCEPT ![c].pc = "send", ![c].saved = TRUE,
                        ![c].sends = hm[c].sends + 1]
    /\ apiGateway' = GetApiGateway(apiGateway, EventEndpoint)
    /\ UNCHANGED <<verifierVars, registry, uuid, resp, mw, sio, svc>>

\* Mutant of SaveMessageFail: the failed save is ignored and the message is
\* sent all the same.
SaveMessageFailThenSend(c) ==
    /\ hm[c].pc = "save"
    /\ hm' = [hm EXCEPT ![c].pc = "send", ![c].sends = hm[c].sends + 1]
    /\ UNCHANGED <<verifierVars, registry, messages, uuid, resp, mw, sio, svc, apiGateway>>

\* putItem threw: persistAndSendMessage catches and returns null.
SaveMessageFail(c) ==
    /\ hm[c].pc = "save"
    /\ hm' = [hm EXCEPT ![c].pc = "done", ![c].status = 200, ![c].ret = "null"]
    /\ UNCHANGED <<verifierVars, registry, messages, uuid, resp, mw, sio, svc, apiGateway>>

\* sendToClient, lines 211-213: PostToConnection succeeded.
SendToClientOk(c) ==
    /\ hm[c].pc = "send"
    /\ hm' = [hm EXCEPT ![c].pc = "done", ![c].status = 200, ![c].out = "ok",
                        ![c].sent = "true",
                        ![c].ret = PersistAndSendResult(hm[c].saved, TRUE)]
    /\ UNCHANGED <<verifierVars, registry, messages, uuid, resp, mw, sio, svc, apiGateway>>

\* sendToClient, lines 215-221: GoneException or 410; the row is to be removed.
SendToClientGone(c) ==
    /\ hm[c].pc = "send"
    /\ hm' = [hm EXCEPT ![c].pc = "prune", ![c].out = "gone"]
    /\ UNCHANGED <<verifierVars, registry, messages, uuid, resp, mw, sio, svc, apiGateway>>

\* Mutant of SendToClientError: a failed send is tried again.
SendToClientErrorRetry(c) ==
    /\ hm[c].pc = "send"
    /\ hm' = [hm EXCEPT ![c].out = "error", ![c].sends = hm[c].sends + 1]
    /\ UNCHANGED <<verifierVars, registry, messages, uuid, resp, mw, sio, svc, apiGateway>>

\* Mutant of SendToClientError: every send failure is taken for a gone
\* connection (the test of lines 215-218 left out).
SendToClientErrorPrunes(c) ==
    /\ hm[c].pc = "send"
    /\ hm' = [hm EXCEPT ![c].pc = "prune", ![c].out = "error"]
    /\ UNCHANGED <<verifierVars, registry, messages, uuid, resp, mw, sio, svc, apiGateway>>

\* sendToClient, line 222: any other send failure.
SendToClientError(c) ==
    /\ hm[c].pc = "send"
    /\ hm' = [hm EXCEPT ![c].pc = "done", ![c].status = 200, ![c].out = "error",
                        ![c].sent = "false",
                        ![c].ret = PersistAndSendResult(hm[c].saved, FALSE)]
    /\ UNCHANGED <<verifierVars, registry, messages, uuid, resp, mw, sio, svc, apiGateway>>

\* sendToClient, lines 220-222: the stale row is removed; false is returned.
PruneOk(c) ==
    /\ hm[c].pc = "prune"
    /\ registry' = RemoveConnection(registry, c)
    /\ hm' = [hm EXCEPT ![c].pc = "done", ![c].status = 200,
                        ![c].sent = "false", ![c].pruned = TRUE,
                        ![c].ret = PersistAndSendResult(hm[c].saved, FALSE)]
    /\ UNCHANGED <<verifierVars, messages, uuid, resp, mw, sio, svc, apiGateway>>

\* removeConnection threw out of sendToClient's catch block; the catch of
\* persistAndSendMessage (line 260) turns it into null.
PruneFail(c) ==
    /\ hm[c].pc = "prune"
    /\ hm' = [hm EXCEPT ![c].pc = "done", ![c].status = 200,
                        ![c].sent = "throw", ![c].ret = "null"]
    /\ UNCHANGED <<verifierVars, registry, messages, uuid, resp, mw, sio, svc, apiGateway>>

HmReturn(c) ==
    /\ hm[c].pc = "done"
    /\ hm' = [hm EXCEPT ![c] = [IdleHm EXCEPT !.pruned = hm[c].pruned]]
    /\ UNCHANGED <<verifierVars, registry, messages, uuid, resp, mw, sio, svc, apiGateway>>

\* ----------------------------------------- Socket.io: socketAuthMiddleware
IdleSio == [pc |-> "idle", calls |-> 0, err |-> "", user |-> NoUser,
            vres |-> "none", handled |-> FALSE]


\* Lines 227-240: the cookie header and the auth cookie; a missing one ends
\* the handshake with next(new Error("Missing authentication token")).
SioBegin(h) ==
    IF ~h.has \/ ~h.auth
    THEN [IdleSio EXCEPT !.pc = "done", !.calls = 1,
                         !.err = "Missing authentication token"]
    ELSE [IdleSio EXCEPT !.pc = "auth"]

SocketAuthMiddleware(s, h) ==
    /\ sio[s].pc = "idle"
    /\ vcall[s].pc = "idle"
    /\ sio' = [sio EXCEPT ![s] = SioBegin(h)]
    /\ vcall' = IF h.has /\ h.auth THEN [vcall EXCEPT ![s] = StartCall(h.tok)]
                ELSE vcall
    /\ UNCHANGED <<now, srcKeys, jwksCache, jwksLastFetch, gatewayVars, svc, apiGateway>>

\* Mutant of SioAfterAuth: the return before next(new Error(...)) is missing,
\* so a rejected handshake runs on to user.sub, throws, and the catch block
\* calls next a second time.
SioAfterAuthNoReturn(r, call) ==
    IF AuthenticateFromCookie(call) = NoUser
    THEN [r EXCEPT !.pc = "done", !.calls = r.calls + 2, !.vres = call.res,
                   !.err = "Authentication failed"]
    ELSE [r EXCEPT !.pc = "done", !.calls = r.calls + 1, !.vres = call.res,
                   !.user = AuthenticateFromCookie(call)]

\* Lines 243-253: a null user rejects the handshake; otherwise the user is
\* attached to the socket and next() is called with no argument.
SioAfterAuth(r, call) ==
    IF AuthenticateFromCookie(call) = NoUser
    THEN [r EXCEPT !.pc = "done", !.calls = r.calls + 1, !.vres = call.res,
                   !.err = "Invalid authentication token"]
    ELSE [r EXCEPT !.pc = "done", !.calls = r.calls + 1, !.vres = call.res,
                   !.user = AuthenticateFromCookie(call)]

SioAuthenticated(s) ==
    /\ sio[s].pc = "auth"
    /\ vcall[s].pc = "done"
    /\ sio' = [sio EXCEPT ![s] = SioAfterAuth(sio[s], vcall[s])]
    /\ vcall' = [vcall EXCEPT ![s] = IdleCall]
    /\ UNCHANGED <<now, srcKeys, jwksCache, jwksLastFetch, gatewayVars, svc, apiGateway>>

\* socketPlugin, lines 40-50: Socket.io emits "connection" for a socket whose
\* middleware called next() without an error; the handler reads user.sub.
SioConnection(s) ==
    /\ sio[s].pc = "done"
    /\ sio[s].calls > 0
    /\ sio[s].err = ""
    /\ ~sio[s].handled
    /\ sio' = [sio EXCEPT ![s].handled = TRUE]
    /\ UNCHANGED <<verifierVars, gatewayVars, svc, apiGateway>>

\* The socket is closed (or was rejected); its id is not used again, and a
\* new socket takes the slot.
SioClose(s) ==
    /\ sio[s].pc = "done"
    /\ sio' = [sio EXCEPT ![s] = IdleSio]
    /\ UNCHANGED <<verifierVars, gatewayVars, svc, apiGateway>>

Init ==
    /\ now = 0
    /\ srcKeys = {KeyK1}
    /\ jwksCache = NullCache
    /\ jwksLastFetch = 0
    /\ vcall = [i \in Ids |-> IdleCall]
    /\ registry = [c \in Ids |-> NoRow]
    /\ messages = {}
    /\ uuid = 0
    /\ resp = [c \in Ids |-> NoResp]
    /\ mw = [c \in Ids |-> IdleMw]
    /\ hm = [c \in Ids |-> IdleHm]
    /\ sio = [c \in Ids |-> IdleSio]
    /\ svc = NoCall
    /\ apiGateway = NoClient

VerifierNext ==
    \/ \E i \in Ids, tok \in Tokens : ValidateToken(i, tok)
    \/ \E i \in Ids : FetchOk(i)
    \/ \E i \in Ids : FetchFail(i)
    \/ \E i \in Ids : Return(i)
    \/ Tick
    \/ RotateKeys

SpecVerifier == Init /\ [][VerifierNext]_vars

\* The auth gate of the API Gateway mode for every connection: the connect
\* and disconnect routes, the middleware, and the key fetches it waits for.
AuthGateStep(c) ==
    \/ HandleConnectOk(c)
    \/ HandleConnectFail(c)
    \/ HandleDisconnectOk(c)
    \/ HandleDisconnectFail(c)
    \/ \E routeKey \in {"$connect", "$disconnect"} : LambdaRoute(c, routeKey)
    \/ \E h \in GatewayHeaders : WebSocketAuthMiddleware(c, h)
    \/ FetchOk(c)
    \/ FetchFail(c)
    \/ MwAuthenticated(c)
    \/ MwRemoveOk(c)
    \/ MwRemoveFail(c)
    \/ MwAddOk(c)
    \/ MwAddFail(c)
    \/ MwCatchRemoveOk(c)
    \/ MwCatchRemoveFail(c)
    \/ MwReturn(c)

\* handleMessage with the relay it calls.
RelayStep(c) ==
    \/ \E ev \in RouteEvents : HandleMessage(c, ev)
    \/ SaveMessageOk(c)
    \/ SaveMessageFail(c)
    \/ SendToClientOk(c)
    \/ SendToClientGone(c)
    \/ SendToClientError(c)
    \/ PruneOk(c)
    \/ PruneFail(c)
    \/ HmReturn(c)

AuthGateNext == \E c \in Ids : AuthGateStep(c)

SpecAuthGate == Init /\ [][AuthGateNext]_vars

GatewayNext == \E c \in GatewayConns : AuthGateStep(c) \/ RelayStep(c)

SpecGateway == Init /\ [][GatewayNext]_vars

\* The message relay of every connection, with the connect route that gives
\* a connection its row: the persistAndSendMessage calls of two connections
\* in every interleaving.
RelayNext == \E c \in Ids : HandleConnectOk(c) \/ RelayStep(c)

SpecRelay == Init /\ [][RelayNext]_vars

\* The connections table under the connect and disconnect routes of every
\* connection while the clock advances.
RegistryNext ==
    \/ Tick
    \/ \E c \in Ids :
          \/ HandleConnectOk(c) \/ HandleConnectFail(c)
          \/ HandleDisconnectOk(c) \/ HandleDisconnectFail(c)

SpecRegistry == Init /\ [][RegistryNext]_vars

\* connectionService called directly, every method succeeding or failing on
\* the store, while the clock advances.
ConnectionServiceNext ==
    \/ Tick
    \/ \E c \in Ids, user \in {NoUser, TokGood.sub} : AddConnectionCall(c, user)
    \/ \E c \in Ids : RemoveConnectionCall(c)
    \/ GetConnections
    \/ \E user \in {NoUser, TokGood.sub} : FindConnectionsByUserData(user)
    \/ \E op \in ConnectionOps, c \in Ids, raw \in StoreErrors :
          ConnectionServiceFail(op, c, raw)

SpecConnectionService == Init /\ [][ConnectionServiceNext]_vars

\* The error mappers of utils/errorHandler.ts called with every error.
ErrorHandlerNext ==
    \/ \E msg \in AuthErrorMessages, code \in AuthErrorCodes :
          HandleAuthError(msg, code)
    \/ \E name \in DynamoErrorNames, msg \in {<<>>, <<"invalid", "token">>} :
          HandleDynamoDBError(name, msg)
    \/ MapperReturn

SpecErrorHandler == Init /\ [][ErrorHandlerNext]_vars

\* messageService.saveMessage and getSessionMessages called directly while
\* the clock advances.
MessageServiceNext ==
    \/ Tick
    \/ \E c \in GatewayConns, sid \in Sessions, content \in Contents :
          SaveMessage(c, sid, content)
    \/ \E c \in GatewayConns, sid \in Sessions, raw \in StoreErrors :
          SaveMessageThrows(c, sid, raw)
    \/ \E sid \in Sessions, limit \in {1, DefaultLimit} :
          GetSessionMessages(sid, limit)
    \/ \E sid \in Sessions, raw \in StoreErrors :
          GetSessionMessagesThrows(sid, raw)

SpecMessageService == Init /\ [][MessageServiceNext]_vars

\* The Socket.io mode: handshakes through socketAuthMiddleware.
SocketIoNext ==
    \/ \E s \in Ids, h \in Headers : SocketAuthMiddleware(s, h)
    \/ \E s \in Ids : FetchOk(s)
    \/ \E s \in Ids : FetchFail(s)
    \/ \E s \in Ids : SioAuthenticated(s)
    \/ \E s \in Ids : SioConnection(s)
    \/ \E s \in Ids : SioClose(s)
    \/ Tick
    \/ RotateKeys

SpecSocketIo == Init /\ [][SocketIoNext]_vars

\* utils/cookie.ts getCookie called with every header and name.
CookieNext ==
    \/ \E pairs \in CookiePairs, name \in CookieNames \cup {<<"z">>} :
          GetCookie(pairs, name)
    \/ GetCookieReturn

SpecCookie == Init /\ [][CookieNext]_vars

\* The two transport modes side by side: the client of connection c presents
\* Credential(c) to the Socket.io handshake and to the API Gateway routes.
Credential(c) == IF c = "c1" THEN HdrTok(TokGood) ELSE HdrNone

ModesStep(c) ==
    \/ SocketAuthMiddleware(c, Credential(c))
    \/ FetchOk(c)
    \/ FetchFail(c)
    \/ SioAuthenticated(c)
    \/ SioConnection(c)
    \/ SioClose(c)
    \/ HandleConnectOk(c)
    \/ HandleConnectFail(c)
    \/ HandleDisconnectOk(c)
    \/ HandleDisconnectFail(c)

\* The connections that present no credential; the inbound events are theirs.
Anonymous == {c \in Ids : Credential(c) = HdrNone}

ModesNext ==
    \/ \E c \in Ids : ModesStep(c)
    \/ \E c \in Anonymous : RelayStep(c)

SpecModes == Init /\ [][ModesNext]_vars

\* connectionService called directly while rows outlive their time to live
\* and the store sweeps them.
RegistryReadsNext ==
    \/ ConnectionServiceNext
    \/ TtlElapses
    \/ \E c \in Ids : TtlSweep(c)

SpecRegistryReads == Init /\ [][RegistryReadsNext]_vars

\* The connect route and the auth middleware of one connection, with calls
\* of the middleware that do not complete.
TimeoutNext == \E c \in GatewayConns : AuthGateStep(c) \/ MwTimeout(c)

SpecTimeout == Init /\ [][TimeoutNext]_vars

\* sendSocketError and the handlers wrapped by withErrorHandling, called with
\* every error and every argument list.
SocketErrorsNext ==
    \/ \E error \in SocketErrors : SendSocketError(error)
    \/ \E args \in HandlerArgs : WithErrorHandlingResolves(args)
    \/ \E args \in HandlerArgs,
          error \in {PlainError(<<"rate", "limit">>, ""),
                     AppErrorThrown(RateLimitError(<<"rate", "limit">>))} :
          WithErrorHandlingThrows(args, error)
    \/ MapperReturn

SpecSocketErrors == Init /\ [][SocketErrorsNext]_vars

\* messageService.sendToClient called directly for events of every endpoint,
\* with the connect route that registers the connections.
TransportNext ==
    \/ \E c \in Ids : HandleConnectOk(c)
    \/ \E endpoint \in Endpoints, c \in Ids,
          out \in {"ok", "error", "gone", "goneThrows"} :
          SendToClient(endpoint, c, out)
    \/ MapperReturn

SpecTransport == Init /\ [][TransportNext]_vars

\* The message relay of every connection, and getSessionMessages called for
\* every session id the relay can have drawn.
SessionsNext ==
    \/ RelayNext
    \/ \E sid \in 1..(2 * MaxMsgs) : GetSessionMessages(sid, DefaultLimit)

SpecSessions == Init /\ [][SessionsNext]_vars

\* ================================================================= claims

\* The connection's row carries an authenticated subject.
Identified(c) == registry[c].present /\ registry[c].userId # NoUser

\* What the claims call a valid token: a key id present in the key set, a
\* signature made with that key, the pool's issuer, RS256, not yet expired.
ClaimValid(tok, keys, t) ==
    /\ tok.kid # NoKid
    /\ \E k \in keys : k.kid = tok.kid /\ tok.sig = k.mat
    /\ tok.iss = Issuer
    /\ tok.alg = "RS256"
    /\ t < tok.exp

\* C1 (as claimed): every step in which webSocketAuthMiddleware finishes in
\* a failure (anything but its 200) leaves no row for that connectionId.
C1_FailedAuthLeavesNoRow ==
    [][\A c \in Ids :
         (mw[c].pc # "done" /\ mw'[c].pc = "done" /\ mw'[c].status # 200)
            => ~registry'[c].present]_vars

\* C2 (as claimed): a connection is in the registry only if its
\* authentication succeeded, so every row carries an authenticated subject.
C2_ConnectRegistersOnlyAuthenticated ==
    \A c \in Ids : registry[c].present => registry[c].userId # NoUser

\* C3 (as claimed): a message is persisted for a connection, or delivered to
\* it, only while that connection's row carries an authenticated subject.
C3_RelayOnlyForIdentified ==
    [][\A c \in Ids :
         ((hm'[c].saved /\ ~hm[c].saved) \/ (hm'[c].out = "ok" /\ hm[c].out # "ok"))
            => Identified(c)]_vars

\* C4: a finished handshake has called next exactly once (an unfinished one
\* not at all), without an error exactly when socket.user was set, which
\* happens only for a token validateToken accepted; the connection handler
\* runs only for sockets that carry a user.
C4_NextOnceAndOkIffVerified ==
    \A s \in Ids :
        /\ sio[s].pc # "done" => sio[s].calls = 0 /\ ~sio[s].handled
        /\ sio[s].pc = "done" =>
              /\ sio[s].calls = 1
              /\ sio[s].err = "" <=> sio[s].user # NoUser
              /\ sio[s].user # NoUser => sio[s].vres = "ok"
        /\ sio[s].handled => sio[s].user # NoUser

\* C4 witness: the connection handler ran for a verified socket.
C4_HandlerRanForVerifiedUser ==
    \E s \in Ids : sio[s].handled /\ sio[s].user = "u1"

\* C5: whenever validateToken finishes by returning the payload, the token's
\* kid is in the key set in use, the signature is that key's, the issuer is
\* the pool, the algorithm is RS256 and the token has not expired.
C5_ValidateTokenAcceptsOnlyValid ==
    [][\A i \in Ids :
         (vcall[i].pc # "done" /\ vcall'[i].pc = "done" /\ vcall'[i].res = "ok")
            => /\ ~jwksCache'.isNull
               /\ ClaimValid(vcall'[i].tok, jwksCache'.keys, now)]_vars

\* C5 witness: a token signed with the rotated key was accepted.
C5_RotatedTokenAccepted ==
    \E i \in Ids : vcall[i].pc = "done" /\ vcall[i].res = "ok"
                   /\ vcall[i].tok = TokRotated

\* C6 (as claimed): at most one fetch of the key set is in flight.
C6_SingleInFlightFetch ==
    Cardinality({i \in Ids : vcall[i].pc = "fetching"}) <= 1

C8_UnknownKidTriggersOneRefetch ==
    \A i \in Ids : vcall[i].pc = "done" /\ vcall[i].res = "KeyNotFound"
                      => vcall[i].fetched = 1

\* C8 (amended): for a token whose kid is not in the cached key set, a
\* verification that begins within the TTL fails at once with KeyNotFound
\* and fetches nothing; one that begins with the cache older than the TTL
\* issues exactly one fetch; and no step ever adds a second fetch to a call.
C8_UnknownKidFetchesOnlyWhenStale ==
    [][\A i \in Ids :
         /\ (/\ vcall[i].pc = "idle" /\ vcall'[i].pc # "idle"
             /\ vcall'[i].tok.kid # NoKid
             /\ ~jwksCache.isNull
             /\ ~ \E k \in jwksCache.keys : k.kid = vcall'[i].tok.kid)
               => IF now - jwksLastFetch <= CACHE_TTL
                  THEN /\ vcall'[i].pc = "done"
                       /\ vcall'[i].res = "KeyNotFound"
                       /\ vcall'[i].fetched = 0
                  ELSE vcall'[i].pc = "fetching" /\ vcall'[i].fetched = 1
         /\ vcall[i].pc = "fetching" => vcall'[i].fetched = 1]_vars

\* C8 witness: KeyNotFound was answered from a fresh cache, with no fetch.
C8_KeyNotFoundWithoutFetch ==
    \E i \in Ids : /\ vcall[i].pc = "done" /\ vcall[i].res = "KeyNotFound"
                   /\ vcall[i].fetched = 0

\* C9 (as claimed): a verification that failed because the key set could not
\* be fetched is not answered with the invalid-token rejection.
C9_KeyOutageNotReportedAsInvalidToken ==
    \A c \in Ids :
        (mw[c].pc = "done" /\ mw[c].vres = "JwksUnavailable")
           => ~(mw[c].status = 401 /\ mw[c].body = "Invalid authentication token")

\* C10 (as claimed): persistAndSendMessage returns the message whenever it
\* was saved.
C10_MessageReturnedWheneverSaved ==
    \A c \in Ids : hm[c].pc = "done" /\ hm[c].saved => hm[c].ret = "message"

\* C10 (amended): persistAndSendMessage returns the message exactly when it
\* was saved and the send succeeded; a saved message stays in the table
\* whatever the delivery outcome.
C10_MessageReturnedIffSavedAndDelivered ==
    \A c \in Ids :
        /\ (hm[c].pc = "done" /\ hm[c].sid # 0)
              => (hm[c].ret = "message" <=> hm[c].saved /\ hm[c].out = "ok")
        /\ hm[c].saved => Message(hm[c].msg, c, hm[c].sid, Reply, hm[c].ts) \in messages

\* C10 witness: a saved message whose delivery failed ended in null.
C10_SavedButNotDelivered ==
    \E c \in Ids : /\ hm[c].pc = "done" /\ hm[c].saved
                   /\ hm[c].out \in {"gone", "error"}
                   /\ hm[c].ret = "null"

\* C11: when saving the message fails, persistAndSendMessage ends at once
\* with null: no PostToConnection command was issued, no answer of the
\* transport was taken, and the step leaves the connections table as it was.
C11_FailedSaveReturnsNullAndSendsNothing ==
    [][\A c \in Ids :
         (hm[c].pc = "save" /\ hm'[c].pc # "save" /\ ~hm'[c].saved)
         => (/\ hm'[c].pc = "done"
             /\ hm'[c].ret = "null"
             /\ hm'[c].sends = 0
             /\ hm'[c].out = "none"
             /\ registry' = registry)]_vars

\* A call ended on a failed save while the connection's row is in the table.
C11_SaveFailedRowKept ==
    \E c \in Ids :
        /\ hm[c].pc = "done" /\ hm[c].sid # 0 /\ ~hm[c].saved
        /\ hm[c].ret = "null" /\ hm[c].sends = 0
        /\ registry[c].present

\* C12: the result of persistAndSendMessage tells a persistence failure from
\* a delivery failure: a call whose save failed and a call whose message was
\* saved but not delivered do not end with the same result.
C12_PersistFailureToldFromNotDelivered ==
    \A c, d \in Ids :
        (/\ hm[c].pc = "done" /\ hm[c].sid # 0 /\ ~hm[c].saved
         /\ hm[d].pc = "done" /\ hm[d].saved /\ hm[d].out \in {"gone", "error"})
        => hm[c].ret # hm[d].ret

\* C13: a PostToConnection command is issued only for a message that is
\* already in the Messages table, and each call issues exactly one for the
\* message it stored (a failed delivery is not tried again) and none when
\* the message was not stored.
C13_StoredBeforeSentAndSentOnce ==
    \A c \in Ids :
        /\ hm[c].sends <= 1
        /\ hm[c].sends = 1 =>
              (hm[c].saved /\ Message(hm[c].msg, c, hm[c].sid, Reply, hm[c].ts) \in messages)
        /\ hm[c].saved => hm[c].sends = 1
        /\ hm[c].out # "none" => hm[c].sends = 1

\* A stored message whose only delivery attempt failed.
C13_DeliveryFailedNotRetried ==
    \E c \in Ids :
        /\ hm[c].pc = "done" /\ hm[c].saved /\ hm[c].out = "error"
        /\ hm[c].sends = 1
        /\ Message(hm[c].msg, c, hm[c].sid, Reply, hm[c].ts) \in messages

\* C14: when the transport reports a registered target connection as gone,
\* sendToClient ends by returning false, never by raising, and the
\* connection's row is then out of the connections table.
C14_GoneReturnsFalseAndRemovesRow ==
    [][\A c \in Ids :
         (/\ registry[c].present
          /\ hm[c].out = "gone" /\ hm[c].pc = "prune" /\ hm'[c].pc = "done")
         => (hm'[c].sent = "false" /\ ~registry'[c].present)]_vars

\* C15: once a sendToClient has found a connection gone and removed its row,
\* a later sendToClient that finds the same connection gone returns false
\* at once, without another attempt at the removal.
C15_SecondSendToGoneSkipsRemoval ==
    [][\A c \in Ids :
         (/\ hm[c].pruned /\ ~registry[c].present
          /\ hm[c].pc = "send" /\ hm'[c].out = "gone")
         => (hm'[c].pc = "done" /\ hm'[c].sent = "false")]_vars

\* C16: a step of sendToClient changes the connections table only after the
\* transport reported the connection gone; the step that takes a successful
\* send or any other send failure leaves the table as it was.
C16_RowRemovedOnlyOnGone ==
    [][\A c \in Ids :
         /\ (hm'[c] # hm[c] /\ registry' # registry)
            => (hm[c].pc = "prune" /\ hm[c].out = "gone")
         /\ (hm[c].pc = "send" /\ hm'[c].out \in {"ok", "error"})
            => (registry' = registry /\ hm'[c].pc = "done")]_vars

\* A send failed for a reason other than gone and the row is still there.
C16_TransientErrorKeepsRow ==
    \E c \in Ids :
        /\ hm[c].pc = "done" /\ hm[c].out = "error" /\ hm[c].sent = "false"
        /\ registry[c].present

\* C17: handling a disconnect answers 200 and leaves no row for the
\* connection, also when the removal from the connections table fails.
C17_DisconnectRemovesRowAndNeverFails ==
    [][\A c \in Ids :
         (resp'[c] # resp[c] /\ resp'[c].op = "disconnect")
         => (resp'[c].status = 200 /\ ~registry'[c].present)]_vars

\* C18: once the disconnect of a connection has been handled and the
\* handlers that were running for it have finished, the connections table
\* holds no row for it: an authentication that was in flight when the
\* disconnect removed the row does not create it again.
C18_NoRowAfterDisconnectAndHandlersDone ==
    \A c \in Ids :
        (/\ resp[c].op = "disconnect" /\ resp[c].status = 200
         /\ resp[c].inflight
         /\ mw[c].pc = "done"
         /\ hm[c].pc \in {"idle", "done"})
        => ~registry[c].present

\* C19: the step that ends an authentication of connection c with success
\* for subject u leaves the one row kept under c in the connections table
\* carrying u as its user (the table is keyed by connection id, so a
\* connection never has two rows or two users at once).
C19_AuthenticatedRowCarriesSubject ==
    [][\A c \in Ids :
         (mw'[c] # mw[c] /\ mw'[c].pc = "done" /\ mw'[c].status = 200)
         => (/\ mw'[c].user # NoUser
             /\ mw'[c].vres = "ok"
             /\ registry'[c].present
             /\ registry'[c].userId = mw'[c].user)]_vars

\* An authentication has succeeded and the row carries the token's subject.
C19_RowOfAuthenticatedUser ==
    \E c \in Ids :
        /\ mw[c].pc = "done" /\ mw[c].status = 200
        /\ registry[c].present /\ registry[c].userId = TokGood.sub

\* The whole seconds in a number of milliseconds.
WholeSeconds(ms) ==
    CHOOSE sec \in 0..ms : sec * MsPerSecond <= ms /\ ms < (sec + 1) * MsPerSecond

\* C20: addConnection is an upsert: a step that writes the row of a
\* connection id, whether or not the id already had a row, leaves that one
\* row with the time of this call and with an expiry of that time in whole
\* seconds plus 2 hours, and leaves the rows of the other ids alone.
C20_AddConnectionUpsertsWithTtl ==
    [][\A c \in Ids :
         (registry'[c] # registry[c] /\ registry'[c].present)
         => (/\ registry'[c].timestamp = DateNow
             /\ registry'[c].ttl = WholeSeconds(DateNow) + 2 * 60 * 60
             /\ \A d \in Ids \ {c} : registry'[d] = registry[d])]_vars

\* A row written at a time that is not a whole number of seconds, after the
\* first second.
C20_RowWrittenWithinASecond ==
    \E c \in Ids :
        /\ registry[c].present
        /\ registry[c].timestamp > MsPerSecond
        /\ registry[c].timestamp % MsPerSecond # 0
        /\ registry[c].ttl = WholeSeconds(registry[c].timestamp) + ConnectionTtl

\* C21: a call of connectionService during which the store raised ends by
\* throwing (the failure is not swallowed), what it throws is the method's
\* own fixed error and not the store's exception, and the step leaves the
\* connections table as it was.
C21_StoreFailureReRaisedAsRegistryError ==
    [][(svc' # svc /\ svc'.op \in ConnectionOps /\ svc'.raw # "")
       => (/\ svc'.res = "throw"
           /\ svc'.err \in {"Failed to add connection",
                             "Failed to remove connection",
                             "Failed to fetch connections",
                             "Failed to find connections"}
           /\ svc'.err # svc'.raw
           /\ registry' = registry)]_vars

\* addConnection failed on the store while the table holds a row.
C21_AddFailedOnStore ==
    /\ svc.op = "addConnection" /\ svc.raw \in StoreErrors
    /\ svc.res = "throw" /\ svc.err = "Failed to add connection"
    /\ \E c \in Ids : registry[c].present

\* C22: getSessionMessages returns the messages of a session oldest first:
\* of any two messages it returns, the one with the smaller timestamp
\* comes first.
C22_SessionMessagesOldestFirst ==
    (svc.op = "getSessionMessages" /\ svc.res = "ok")
    => \A i, j \in 1..Len(svc.items) :
         i < j => svc.items[i].timestamp <= svc.items[j].timestamp

\* C23: sessions are isolated: every message getSessionMessages returns for
\* a session is a stored message that was saved under that very session.
C23_OnlyMessagesOfTheSession ==
    (svc.op = "getSessionMessages" /\ svc.res = "ok")
    => \A i \in 1..Len(svc.items) :
         /\ svc.items[i] \in messages
         /\ svc.items[i].sessionId = svc.arg

\* The messages of s2 were returned while a message of s1 is stored.
C23_OtherSessionStored ==
    /\ svc.op = "getSessionMessages" /\ svc.res = "ok" /\ svc.arg = "s2"
    /\ Len(svc.items) > 0
    /\ \E m \in messages : m.sessionId = "s1"

\* C24: a stored message is never changed and never deleted: every row of
\* the Messages table is still in it, as it was, after any step of the
\* relay or of the connect and disconnect handling.
C24_StoredMessagesOnlyGrow ==
    [][\A m \in messages : m \in messages']_vars

\* A second reply has been stored next to the first one.
C24_TwoMessagesStored ==
    /\ Cardinality(messages) >= 2
    /\ \E c \in Ids : hm[c].pc = "done" /\ hm[c].saved

\* C25: a connect attempt that presents an expired token is answered with
\* the error code TOKEN_EXPIRED and status 401, and no row is written for
\* the connection.
C25_ExpiredTokenAnsweredTokenExpired ==
    [][\A c \in Ids :
         (mw[c].pc = "auth" /\ mw'[c].pc # "auth" /\ vcall[c].tok.exp <= now)
         => (/\ mw'[c].status = 401
             /\ MwErrorCode(mw'[c]) = "TOKEN_EXPIRED"
             /\ registry' = registry)]_vars

\* C26: handleAuthError answers by the first rule its message matches:
\* 'token expired' gives TOKEN_EXPIRED with 401, then 'invalid token'
\* INVALID_TOKEN with 401, then 'unauthorized' UNAUTHORIZED with 401, then
\* 'rate limit' RATE_LIMIT_EXCEEDED with 429; what it returns always has
\* the message, status and code of an AppError.
C26_HandleAuthErrorFirstMatch ==
    svc.op = "handleAuthError" =>
      /\ svc.res = "ok" /\ svc.status \in {401, 429} /\ svc.code # ""
      /\ Len(svc.items) > 0
      /\ IF Includes(svc.msg, <<"token", "expired">>)
         THEN svc.code = "TOKEN_EXPIRED" /\ svc.status = 401
         ELSE IF Includes(svc.msg, <<"invalid", "token">>)
         THEN svc.code = "INVALID_TOKEN" /\ svc.status = 401
         ELSE IF Includes(svc.msg, <<"unauthorized">>)
         THEN svc.code = "UNAUTHORIZED" /\ svc.status = 401
         ELSE IF Includes(svc.msg, <<"rate", "limit">>)
         THEN svc.code = "RATE_LIMIT_EXCEEDED" /\ svc.status = 429
         ELSE svc.status = 401

\* A message that matches the first and the second rule was mapped.
C26_MessageMatchingTwoRules ==
    /\ svc.op = "handleAuthError"
    /\ svc.msg = <<"invalid", "token", "expired">>
    /\ svc.code = "TOKEN_EXPIRED"

\* C27: the answer to a rejected connection is a structured payload that
\* carries a message, an error code, a status, the connection id and a
\* timestamp.
C27_RejectionPayloadStructured ==
    \A c \in Ids :
        (mw[c].pc = "done" /\ mw[c].status # 200)
        => {"message", "errorCode", "statusCode", "connectionId", "timestamp"}
             \subseteq MwResponseFields(mw[c])

\* C28: an exception the store raises is mapped before it leaves the
\* service: no call of messageService ends by throwing the store's own
\* exception.
C28_StoreExceptionsMappedBeforeLeaving ==
    (svc.op \in {"saveMessage", "getSessionMessages"} /\ svc.res = "throw")
    => svc.err \notin StoreErrors

\* C29: webSocketAuthMiddleware ends every call by returning a response
\* object with a status code, never by throwing, whatever the store and the
\* key source do.
C29_MiddlewareNeverThrows ==
    \A c \in Ids :
        mw[c].pc = "done" => (~mw[c].thrown /\ mw[c].status \in {200, 401, 500})

\* C30: a call whose event has no cookie header, or no auth cookie in it,
\* starts no verification, and what it goes on to return is the 401
\* 'Missing authentication token' rejection.
C30_MissingCookieRejectedWithoutVerifier ==
    [][\A c \in Ids :
         /\ (mw[c].pc = "idle" /\ mw'[c].body = "Missing authentication token")
            => vcall' = vcall
         /\ (/\ mw[c].pc = "remove"
             /\ mw[c].body = "Missing authentication token"
             /\ mw'[c] # mw[c])
            => (/\ mw'[c].pc = "done"
                /\ mw'[c].status = 401
                /\ mw'[c].body = "Missing authentication token"
                /\ vcall' = vcall)]_vars

\* C31: getCookie on a header of name=value pairs joined with "; " returns
\* for a name the value of the last pair of that name, whole, "=" characters
\* included, and undefined for a name of no pair; the empty header gives the
\* empty mapping and raises nothing.
C31_GetCookieRoundTrips ==
    svc.op = "getCookie" =>
        /\ \A i \in DOMAIN svc.items :
              (/\ svc.items[i].name = svc.key
               /\ \A j \in DOMAIN svc.items :
                     svc.items[j].name = svc.key => j <= i)
              => svc.res = "ok" /\ svc.val = svc.items[i].value
        /\ (\A i \in DOMAIN svc.items : svc.items[i].name # svc.key)
              => svc.res = "undefined"
        /\ svc.msg = <<>> => DOMAIN ParseCookies(svc.msg) = {}

\* C31 witness: the value of the first of two cookies holds an "=" and is
\* returned.
C31_ValueWithEqualsReturned ==
    /\ svc.op = "getCookie"
    /\ Len(svc.items) = 2
    /\ svc.items[1].name = svc.key
    /\ svc.items[2].name # svc.key
    /\ svc.items[1].value = <<"x", "=">>
    /\ svc.res = "ok"

\* C32: both transport modes accept the same connections and process events
\* for the same connections: a connection whose credential the Socket.io
\* handshake has rejected is not accepted by the $connect route and no
\* inbound event of it is processed by handleMessage.
C32_ModesAcceptTheSameConnections ==
    \A c \in Ids :
        (sio[c].pc = "done" /\ sio[c].err # "") =>
            /\ ~(resp[c].op = "connect" /\ resp[c].status = 200)
            /\ hm[c].pc = "idle"

\* C33: getConnections and findConnectionsByUserData never return a row
\* whose expiry is earlier than the current time, swept or not.
C33_ReadsSkipExpiredRows ==
    [][(/\ svc'.op \in {"getConnections", "findConnectionsByUserData"}
        /\ svc'.res = "ok"
        /\ svc' # svc
        /\ now' = now
        /\ registry' = registry)
       => \A i \in DOMAIN svc'.items : ~Expired(registry[svc'.items[i]])]_vars

\* C34: a connect/auth attempt that did not complete in time leaves no row
\* of its connection in the Registry.
C34_TimedOutAttemptLeavesNoRow ==
    \A c \in Ids :
        (mw[c].pc = "done" /\ mw[c].body = "Task timed out")
            => ~registry[c].present

\* C35: when the reply to a customEvent cannot be delivered because the
\* target connection is gone, handleMessage answers with status 200 and the
\* row of that connection is removed from the Registry.
C35_GoneReplyAnswered200AndRowRemoved ==
    [][\A c \in Ids :
         (/\ registry[c].present
          /\ hm[c].out = "gone" /\ hm[c].pc # "done" /\ hm'[c].pc = "done")
         => (hm'[c].status = 200 /\ ~registry'[c].present)]_vars

\* C36: a wrapped handler invoked with an acknowledgement callback as its
\* last argument has that callback invoked exactly once: with the result
\* when the handler resolves, with an error object when it throws.
C36_CallbackInvokedExactlyOnce ==
    (/\ svc.op = "withErrorHandling"
     /\ Len(svc.items) > 0
     /\ svc.items[Len(svc.items)] = "fn")
    => LET acks == SelectSeq(svc.val, LAMBDA k : k.pos = Len(svc.items))
       IN  /\ Len(acks) = 1
           /\ svc.res = "ok" => acks[1].with = "result"
           /\ svc.res = "throw" => acks[1].with = "error"

\* C37: for a plain error whose message contains 'token expired', 'invalid
\* token', 'unauthorized' or 'rate limit', the payload sendSocketError emits
\* has the errorCode and status handleAuthError returns for that error.
C37_SendSocketErrorAgreesWithHandleAuthError ==
    (/\ svc.op = "sendSocketError"
     /\ svc.arg = "Error"
     /\ \/ Includes(svc.msg, <<"token", "expired">>)
        \/ Includes(svc.msg, <<"invalid", "token">>)
        \/ Includes(svc.msg, <<"unauthorized">>)
        \/ Includes(svc.msg, <<"rate", "limit">>))
    => /\ svc.code = HandleAuthErrorResult(svc.msg, svc.raw).errorCode
       /\ svc.status = HandleAuthErrorResult(svc.msg, svc.raw).statusCode

\* A step of the key cache: a failed fetch leaves the cache and its
\* timestamp as they were; the two change only together, in the step of one
\* successful fetch; and a call that fetched ends otherwise than on the key
\* source only when its own fetch has refreshed both.
KeyCacheStep ==
    /\ \A i \in Ids :
          (/\ vcall[i].pc = "fetching" /\ vcall'[i].pc = "done"
           /\ vcall'[i].res = "JwksUnavailable")
          => jwksCache' = jwksCache /\ jwksLastFetch' = jwksLastFetch
    /\ (jwksCache' # jwksCache \/ jwksLastFetch' # jwksLastFetch)
          => \E i \in Ids :
                /\ vcall[i].pc = "fetching" /\ vcall'[i].pc = "done"
                /\ vcall'[i].res # "JwksUnavailable"
                /\ jwksCache' = [isNull |-> FALSE, keys |-> srcKeys]
                /\ jwksLastFetch' = vcall[i].t0
    /\ \A i \in Ids :
          (/\ vcall[i].pc = "fetching" /\ vcall'[i].pc = "done"
           /\ vcall'[i].res # "JwksUnavailable")
          => /\ jwksCache' = [isNull |-> FALSE, keys |-> srcKeys]
             /\ jwksLastFetch' = vcall[i].t0

\* A verification begins for caller i while the cache is stale.
BeginsStale(i) == vcall[i].pc = "idle" /\ vcall'[i].pc # "idle" /\ CacheStale

\* C38 (as claimed): a failed fetch leaves cache and timestamp unchanged,
\* the two are updated together by one successful fetch, the stale key set
\* is never served, and every verification that begins while the cached key
\* set is older than the TTL issues a fetch.
C38_EveryStaleVerificationFetches ==
    [][/\ KeyCacheStep
       /\ \A i \in Ids : (BeginsStale(i) /\ ~jwksCache.isNull)
                            => vcall'[i].pc = "fetching"]_vars

\* C38 (amended): as claimed, but the fetch is issued (with a stale key set
\* as with none yet) by every verification of a token that carries a key id;
\* a token without one fails on its format before the key set is asked for.
C38_StaleVerificationOfKeyedTokenFetches ==
    [][/\ KeyCacheStep
       /\ \A i \in Ids :
             BeginsStale(i) =>
                IF BadFormat(vcall'[i].tok)
                THEN vcall'[i].pc = "done" /\ vcall'[i].res = "InvalidFormat"
                ELSE vcall'[i].pc = "fetching" /\ vcall'[i].fetched = 1]_vars

\* C38 witness: the cached key set holds the token's key and is older than
\* the TTL; the fetch failed, the verification failed, the cache is as it was.
C38_StaleKeySetNotServed ==
    \E i \in Ids :
        /\ vcall[i].pc = "done" /\ vcall[i].res = "JwksUnavailable"
        /\ ~jwksCache.isNull
        /\ vcall[i].t0 - jwksLastFetch > CACHE_TTL
        /\ \E k \in jwksCache.keys : k.kid = vcall[i].tok.kid

\* C39: the API Gateway client is created once, from the first event that
\* reaches getApiGateway, and is used by every later send: a client once
\* created is never replaced, the first sendToClient creates it for the
\* endpoint of its event, and every sendToClient sends with it whatever the
\* endpoint of its own event.
C39_ClientOfFirstEventReused ==
    [][/\ apiGateway # NoClient => apiGateway' = apiGateway
       /\ (svc.op = "none" /\ svc'.op = "sendToClient")
             => /\ svc'.val = apiGateway'
                /\ apiGateway = NoClient => apiGateway' = svc'.key]_vars

\* C39 witness: a send for an event of another endpoint went with the client
\* of the first event.
C39_LaterEventSentToFirstEndpoint ==
    /\ svc.op = "sendToClient"
    /\ svc.key # svc.val
    /\ svc.val = apiGateway

\* C40: every message handleMessage persists has a sessionId of its own: no
\* two stored messages share one, and getSessionMessages returns at most one
\* message for any sessionId.
C40_OneMessagePerSession ==
    /\ \A m1, m2 \in messages : m1.sessionId = m2.sessionId => m1 = m2
    /\ svc.op = "getSessionMessages" => Len(svc.items) <= 1

\* C40 witness: two customEvents have been handled and their messages
\* stored; getSessionMessages returned the one message of a session.
C40_TwoSessionsOneMessageEach ==
    /\ Cardinality(messages) = 2
    /\ svc.op = "getSessionMessages"
    /\ Len(svc.items) = 1

====
